---------------------------- MODULE Spec2Model ----------------------------
(***************************************************************************)
(* A model of src/src/app/components/TagAnalyzer.tsx: the TagAnalyzer      *)
(* component (its results/error state, the upload handler and the two      *)
(* papaparse callbacks) and the pure helpers getMismatchedTags and         *)
(* getL1Tags.                                                              *)
(*                                                                         *)
(* JavaScript values are represented as follows.                           *)
(*   string      a sequence of one-character strings, "a,b" being          *)
(*               <<"a", ",", "b">>                                         *)
(*   undefined   the value Undefined, which is no sequence of characters   *)
(*   null        the record Null                                           *)
(*   array       a sequence                                                *)
(*   a call      the record Ok(v) when it returns v, Throw(m) when it      *)
(*               throws an Error whose message is m                        *)
(***************************************************************************)
EXTENDS Integers, Sequences, FiniteSets, TLC

---------------------------------------------------------------------------
(* Bounds of the model. *)

\* Characters held by the two flag cells of the freely drawn data row.
MaxChars == 5
\* Data rows of a grid drawn over the small cells.
MaxRows == 2
\* Files the user picks in one behaviour.
MaxUploads == 2

---------------------------------------------------------------------------
(* JavaScript values. *)

Undefined == <<"undefined">>
Null == [null |-> TRUE]
EmptyStr == <<>>
Comma == <<",">>
Delim == <<":", ":">>

Ok(v) == [threw |-> FALSE, value |-> v]
Throw(m) == [threw |-> TRUE, message |-> m]

\* The messages of the TypeErrors the code can raise (V8's wording).
NoLength == "Cannot read properties of undefined (reading 'length')"
NoSplit == "Cannot read properties of undefined (reading 'split')"

\* row[idx], idx counted from 0 as in the source: undefined past the end.
At(row, idx) == IF idx < Len(row) THEN row[idx + 1] ELSE Undefined

\* Boolean(v) for a cell: undefined and "" are falsy.
Truthy(v) == v # Undefined /\ v # EmptyStr

\* String.prototype.split(sep) for a non-empty separator: the pieces between
\* the occurrences of sep found from left to right, never overlapping.
RECURSIVE SplitAt(_, _, _, _)
SplitAt(s, sep, i, start) ==
    IF i + Len(sep) - 1 > Len(s)
    THEN << SubSeq(s, start, Len(s)) >>
    ELSE IF SubSeq(s, i, i + Len(sep) - 1) = sep
         THEN << SubSeq(s, start, i - 1) >>
                  \o SplitAt(s, sep, i + Len(sep), i + Len(sep))
         ELSE SplitAt(s, sep, i + 1, start)

Split(s, sep) == SplitAt(s, sep, 1, 1)

\* Array.prototype.join(sep) of an array of strings.
RECURSIVE Join(_, _)
Join(list, sep) ==
    IF Len(list) = 0 THEN EmptyStr
    ELSE IF Len(list) = 1 THEN list[1]
    ELSE list[1] \o sep \o Join(Tail(list), sep)

\* Array.prototype.includes(v).
Includes(list, v) == \E k \in DOMAIN list : list[k] = v

\* String.prototype.includes(sub).
StrIncludes(s, sub) ==
    \E k \in 1..Len(s) : k + Len(sub) - 1 <= Len(s) /\ SubSeq(s, k, k + Len(sub) - 1) = sub

\* String.prototype.trim(): the space is the only white space of the model.
RECURSIVE TrimStart(_)
TrimStart(s) ==
    IF Len(s) > 0 /\ s[1] = " " THEN TrimStart(Tail(s)) ELSE s

RECURSIVE TrimEnd(_)
TrimEnd(s) ==
    IF Len(s) > 0 /\ s[Len(s)] = " " THEN TrimEnd(SubSeq(s, 1, Len(s) - 1)) ELSE s

Trim(s) == TrimEnd(TrimStart(s))

\* The UTF-16 code unit of a character a flag cell of the model can hold.
CharCode(c) ==
    CASE c = " " -> 32
      [] c = "," -> 44
      [] c = ":" -> 58
      [] c = "B" -> 66
      [] c = "a" -> 97
      [] c = "b" -> 98

\* a < b in the order of Array.prototype.sort() without a comparator:
\* strings compared code unit by code unit, a proper prefix first.
RECURSIVE StrLess(_, _)
StrLess(a, b) ==
    IF Len(b) = 0 THEN FALSE
    ELSE IF Len(a) = 0 THEN TRUE
    ELSE IF a[1] = b[1] THEN StrLess(Tail(a), Tail(b))
    ELSE CharCode(a[1]) < CharCode(b[1])

RECURSIVE InsertSorted(_, _)
InsertSorted(sorted, x) ==
    IF Len(sorted) = 0 THEN << x >>
    ELSE IF StrLess(x, sorted[1]) THEN << x >> \o sorted
    ELSE << sorted[1] >> \o InsertSorted(Tail(sorted), x)

RECURSIVE SortStrings(_)
SortStrings(list) ==
    IF Len(list) = 0 THEN << >>
    ELSE InsertSorted(SortStrings(Tail(list)), list[1])

\* Set.prototype.add on a Set kept in insertion order.
SetAdd(list, x) == IF Includes(list, x) THEN list ELSE Append(list, x)

---------------------------------------------------------------------------
(* getMismatchedTags, lines 18-38. *)

Sentinel == [sentinel |-> "U+2205"]
Single(s) == [items |-> << s >>]

\* The source column taken from the wrong side of the destructuring.
SourceIdx_swapped(type) == IF type = "over" THEN 2 ELSE 3

SourceIdx(type) == IF type = "over" THEN 3 ELSE 2
DestIdx(type) == IF type = "over" THEN 2 ELSE 3

\* The source tags filtered by the destination tags.
Filtered_ofSource(sourceTags, destTags) ==
    SelectSeq(sourceTags, LAMBDA value : ~Includes(destTags, value))

\* destTags.filter(value => !sourceTags.includes(value))
Filtered(sourceTags, destTags) ==
    SelectSeq(destTags, LAMBDA value : ~Includes(sourceTags, value))

\* The loop body with the test of the destination put first.
RowEntry_destFirst(sourceCol, destCol) ==
    IF destCol = EmptyStr THEN Ok(Sentinel)
    ELSE IF sourceCol = EmptyStr THEN Ok(Single(destCol))
    ELSE IF sourceCol = Undefined \/ destCol = Undefined THEN Throw(NoSplit)
    ELSE LET sourceTags == Split(sourceCol, Comma)
             destTags == Split(destCol, Comma)
             filtered == SelectSeq(destTags, LAMBDA value : ~Includes(sourceTags, value))
         IN  Ok(IF Len(filtered) > 0 THEN Single(Join(filtered, Comma)) ELSE Sentinel)

\* The body of the loop for one row: what is pushed, or the TypeError of a
\* split called on undefined.
RowEntry(sourceCol, destCol) ==
    IF sourceCol = EmptyStr THEN Ok(Single(destCol))
    ELSE IF destCol = EmptyStr THEN Ok(Sentinel)
    ELSE IF sourceCol = Undefined \/ destCol = Undefined THEN Throw(NoSplit)
    ELSE LET sourceTags == Split(sourceCol, Comma)
             destTags == Split(destCol, Comma)
             filtered == Filtered(sourceTags, destTags)
         IN  Ok(IF Len(filtered) > 0 THEN Single(Join(filtered, Comma)) ELSE Sentinel)

\* for (let i = ...; i < content.length; i++), i counted from 0.
RECURSIVE MismatchLoop(_, _, _, _)
MismatchLoop(content, type, i, output) ==
    IF ~(i < Len(content)) THEN Ok(output)
    ELSE LET sourceCol == At(content[i + 1], SourceIdx(type))
             destCol == At(content[i + 1], DestIdx(type))
             entry == RowEntry(sourceCol, destCol)
         IN  IF entry.threw THEN entry
             ELSE MismatchLoop(content, type, i + 1, Append(output, entry.value))

\* The loop started at the header row.
getMismatchedTags_fromHeader(content, type) == MismatchLoop(content, type, 0, << >>)

getMismatchedTags(content, type) == MismatchLoop(content, type, 1, << >>)

---------------------------------------------------------------------------
(* getL1Tags, lines 40-60. *)

\* [agentFlags, qaFlags].filter(Boolean).flatMap(flags => flags.split(","))
RECURSIVE FlatSplit(_)
FlatSplit(cells) ==
    IF Len(cells) = 0 THEN << >>
    ELSE Split(cells[1], Comma) \o FlatSplit(Tail(cells))

AllFlags(row) == FlatSplit(SelectSeq(<< At(row, 2), At(row, 3) >>, Truthy))

\* flag.split("::")[1].trim() for a flag that includes "::".
L1Of(flag) == Trim(Split(flag, Delim)[2])

\* allFlags.forEach(flag => { if (flag.includes("::")) uniqueTags.add(...) })
RECURSIVE AddFlags(_, _)
AddFlags(uniqueTags, flags) ==
    IF Len(flags) = 0 THEN uniqueTags
    ELSE AddFlags(IF StrIncludes(flags[1], Delim)
                  THEN SetAdd(uniqueTags, L1Of(flags[1]))
                  ELSE uniqueTags,
                  Tail(flags))

RECURSIVE L1Loop(_, _, _)
L1Loop(content, i, uniqueTags) ==
    IF ~(i < Len(content)) THEN uniqueTags
    ELSE L1Loop(content, i + 1, AddFlags(uniqueTags, AllFlags(content[i + 1])))

\* The set returned in insertion order, the sort left out.
SortedTags_unsorted(uniqueTags) == uniqueTags

\* Array.from(uniqueTags).sort()
SortedTags(uniqueTags) == SortStrings(uniqueTags)

getL1Tags(content) == SortedTags(L1Loop(content, 1, << >>))

---------------------------------------------------------------------------
(* The component's state, lines 14-16, and what the model records of a run. *)

VARIABLES
    results,    \* useState<AnalysisResults | null>(null)
    error,      \* useState<string | null>(null)
    files,      \* the files the user will pick, each as the grid papaparse reads from it
    picked,     \* how many of them handleFileUpload has handed to Papa.parse
    inflight,   \* the parses started and not yet called back
    log,        \* the uploads and callbacks so far, in the order they happened
    uncaught,   \* whether an exception has left a callback
    call        \* a direct call of the helpers: its argument and what they returned

vars == << results, error, files, picked, inflight, log, uncaught, call >>

\* The strings of the header check, lines 74-78.
TaskLink == << "T", "a", "s", "k", " ", "L", "i", "n", "k" >>
ActionedDate == << "A", "c", "t", "i", "o", "n", "e", "d", " ", "D", "a", "t", "e" >>
AllAgentFlags == << "A", "l", "l", " ", "A", "g", "e", "n", "t", " ", "F", "l", "a", "g", "s" >>
AllQAFlags == << "A", "l", "l", " ", "Q", "A", " ", "F", "l", "a", "g", "s" >>
Agent == << "A", "g", "e", "n", "t" >>

\* A string the component stores in error: the literal text and what is
\* appended to it.
ErrorString(text, message) == [text |-> text, message |-> message]
SchemaError == ErrorString("Invalid CSV format. Please check the column headers.", "")
ProcessingError(message) == ErrorString("Error processing file: ", message)
ParseError(message) == ErrorString("Error parsing CSV: ", message)

\* The header check without its test of the length.
HeaderMismatch_anyLength(headers) ==
    \/ At(headers, 0) # TaskLink
    \/ At(headers, 1) # ActionedDate
    \/ At(headers, 2) # AllAgentFlags
    \/ At(headers, 3) # AllQAFlags
    \/ At(headers, 4) # Agent

\* The condition of the if of lines 73-78.
HeaderMismatch(headers) ==
    \/ Len(headers) # 5
    \/ At(headers, 0) # TaskLink
    \/ At(headers, 1) # ActionedDate
    \/ At(headers, 2) # AllAgentFlags
    \/ At(headers, 3) # AllQAFlags
    \/ At(headers, 4) # Agent

\* data.filter(row => row[3] !== ''), line 84.
KeepRow(row) == At(row, 3) # EmptyStr
FilterRows(data) == SelectSeq(data, KeepRow)

\* The object handed to setResults, lines 89-94.
Bundle(filteredContent, overtags, undertags, l1Tags) ==
    [data |-> filteredContent, overtags |-> overtags,
     undertags |-> undertags, l1Tags |-> l1Tags]

\* The try block of the complete callback, lines 69-95: the state it leaves,
\* or the exception it throws.
TryBlock(data, res, err) ==
    LET headers == At(data, 0)
    IN  IF headers = Undefined THEN Throw(NoLength)
        ELSE IF HeaderMismatch(headers)
        THEN Ok([results |-> res, error |-> SchemaError])
        ELSE LET filteredContent == FilterRows(data)
                 overtags == getMismatchedTags(filteredContent, "over")
                 undertags == getMismatchedTags(filteredContent, "under")
                 l1Tags == getL1Tags(filteredContent)
             IN  IF overtags.threw THEN overtags
                 ELSE IF undertags.threw THEN undertags
                 ELSE Ok([results |-> Bundle(filteredContent, overtags.value,
                                             undertags.value, l1Tags),
                          error |-> Null])

\* A catch that throws the exception on instead of reporting it.
Caught_rethrown(res, thrown) == [results |-> res, error |-> Null, uncaught |-> TRUE]

\* A catch that also clears the results.
Caught_clearing(res, thrown) ==
    [results |-> Null, error |-> ProcessingError(thrown.message), uncaught |-> FALSE]

\* The catch of lines 96-98 around it.
Caught(res, thrown) ==
    [results |-> res, error |-> ProcessingError(thrown.message), uncaught |-> FALSE]

\* The complete callback, lines 67-99.
OnComplete(data, res, err) ==
    LET body == TryBlock(data, res, err)
    IN  IF body.threw THEN Caught(res, body)
        ELSE [results |-> body.value.results, error |-> body.value.error,
              uncaught |-> FALSE]

\* The error callback, lines 100-102.
OnError(message, res) == [results |-> res, error |-> ParseError(message)]

---------------------------------------------------------------------------
(* The inputs. *)

\* The characters of a freely drawn flag cell: a letter, the separator of
\* the tags, the character of the "::" delimiter and white space.
Chars == {"a", ",", ":", " "}

StrsOfLen(n) == [1..n -> Chars]
StrsUpTo(n) == UNION {StrsOfLen(k) : k \in 0..n}

\* The cells of a row that the computation never reads.
Url == << "u" >>
Date == << "d" >>
Who == << "g" >>

ExpectedHeader == << TaskLink, ActionedDate, AllAgentFlags, AllQAFlags, Agent >>

DataRow(agentFlags, qaFlags) == << Url, Date, agentFlags, qaFlags, Who >>

\* Every data row whose two flag cells hold at most MaxChars characters.
FreeRows ==
    UNION {{DataRow(a, q) : a \in StrsOfLen(k), q \in StrsUpTo(MaxChars - k)} :
           k \in 0..MaxChars}

\* A few flag cells for the grids of several rows.
SmallCells ==
    {EmptyStr, << "a" >>, << "b", ":", ":", "a" >>, << "a", ":", ":", " ", "B" >>}

\* Rows cut short, as papaparse yields them for a blank or a short line.
ShortRows ==
    {<< EmptyStr >>, << Url, Date, EmptyStr >>, << Url, Date, << "a" >> >>,
     << Url, Date, << "a" >>, << "a" >> >>}

SmallRows == {DataRow(a, q) : a, q \in SmallCells} \cup ShortRows

RECURSIVE SeqsUpTo(_, _)
SeqsUpTo(S, n) ==
    IF n = 0 THEN {<< >>}
    ELSE LET shorter == SeqsUpTo(S, n - 1)
         IN  shorter \cup {Append(s, x) : s \in {t \in shorter : Len(t) = n - 1}, x \in S}

\* First rows other than the expected header: a column renamed, emptied,
\* swapped with another, added or missing, and a blank first line.
Renamed == << "N", "o", "t", "e", "s" >>
Swap(row, i, j) == [row EXCEPT ![i] = row[j], ![j] = row[i]]
OtherHeaders ==
    {[ExpectedHeader EXCEPT ![i] = c] : i \in 1..5, c \in {Renamed, EmptyStr}}
    \cup {Swap(ExpectedHeader, p[1], p[2]) : p \in {q \in (1..5) \X (1..5) : q[1] < q[2]}}
    \cup {Append(ExpectedHeader, Renamed), Append(ExpectedHeader, EmptyStr),
          SubSeq(ExpectedHeader, 1, 4), << EmptyStr >>}

\* The grids of a behaviour with a single upload.
RunGrids ==
    {<< ExpectedHeader, row >> : row \in FreeRows}
    \cup {<< ExpectedHeader >> \o body : body \in SeqsUpTo(SmallRows, MaxRows)}
    \cup {<< h >> \o body : h \in OtherHeaders,
                            body \in {<< >>, << DataRow(<< "a" >>, << "a" >>) >>}}
    \cup {<< >>}

\* The grids of a behaviour with several uploads.
ShellGrids ==
    {<< ExpectedHeader, DataRow(<< "a" >>, << "b", ":", ":", "a" >>) >>,
     << ExpectedHeader, DataRow(EmptyStr, << "a" >>), DataRow(<< "a" >>, EmptyStr) >>,
     << Swap(ExpectedHeader, 1, 2), DataRow(<< "a" >>, << "a" >>) >>,
     << ExpectedHeader, DataRow(<< "a" >>, << "a" >>), << EmptyStr >> >>}

Uploads ==
    {<< g >> : g \in RunGrids} \cup {s \in SeqsUpTo(ShellGrids, MaxUploads) : Len(s) > 0}

\* The diagnostics of a failed read, error.message of line 101.
ParseMessages == {"NotReadableError"}

---------------------------------------------------------------------------
(* The component. *)

NotCalled == [called |-> FALSE]

Init ==
    /\ results = Null
    /\ error = Null
    /\ files \in Uploads
    /\ picked = 0
    /\ inflight = {}
    /\ log = << >>
    /\ uncaught = FALSE
    /\ call = Null

\* handleFileUpload, lines 62-104, for an event that holds a file (without
\* one it returns at line 64 and changes nothing): the parse is started.
HandleFileUpload ==
    /\ picked < Len(files)
    /\ picked' = picked + 1
    /\ inflight' = inflight \cup {picked + 1}
    /\ log' = Append(log, [ev |-> "upload", file |-> picked + 1, message |-> ""])
    /\ UNCHANGED << results, error, files, uncaught, call >>

\* papaparse calls complete with the grid of file f.
Complete(f) ==
    /\ f \in inflight
    /\ LET out == OnComplete(files[f], results, error)
       IN  /\ results' = out.results
           /\ error' = out.error
           /\ uncaught' = (uncaught \/ out.uncaught)
    /\ inflight' = inflight \ {f}
    /\ log' = Append(log, [ev |-> "complete", file |-> f, message |-> ""])
    /\ UNCHANGED << files, picked, call >>

\* papaparse calls error: file f could not be read.
Failed(f, message) ==
    /\ f \in inflight
    /\ LET out == OnError(message, results)
       IN  /\ results' = out.results
           /\ error' = out.error
    /\ inflight' = inflight \ {f}
    /\ log' = Append(log, [ev |-> "error", file |-> f, message |-> message])
    /\ UNCHANGED << files, picked, uncaught, call >>

ParseComplete == \E f \in inflight : Complete(f)
ParseFailed == \E f \in inflight, message \in ParseMessages : Failed(f, message)

Next == HandleFileUpload \/ ParseComplete \/ ParseFailed

Spec == Init /\ [][Next]_vars

---------------------------------------------------------------------------
(* The helpers called directly, on a grid that no filter has been through. *)

FnGrids ==
    {<< ExpectedHeader, row >> : row \in FreeRows}
    \cup {<< ExpectedHeader >> \o body : body \in SeqsUpTo(SmallRows, MaxRows)}

Returned(ret) == [called |-> TRUE, ret |-> ret]

InitFn ==
    /\ results = Null
    /\ error = Null
    /\ files = << >>
    /\ picked = 0
    /\ inflight = {}
    /\ log = << >>
    /\ uncaught = FALSE
    /\ call \in {[content |-> g, over |-> NotCalled, under |-> NotCalled] : g \in FnGrids}

\* getMismatchedTags(content), the type left to its default "over".
CallOver ==
    /\ call.over = NotCalled
    /\ call' = [call EXCEPT !.over = Returned(getMismatchedTags(call.content, "over"))]
    /\ UNCHANGED << results, error, files, picked, inflight, log, uncaught >>

\* getMismatchedTags(content, "under").
CallUnder ==
    /\ call.under = NotCalled
    /\ call' = [call EXCEPT !.under = Returned(getMismatchedTags(call.content, "under"))]
    /\ UNCHANGED << results, error, files, picked, inflight, log, uncaught >>

NextFn == CallOver \/ CallUnder

SpecFn == InitFn /\ [][NextFn]_vars

---------------------------------------------------------------------------
(* What the properties speak of. *)

Range(list) == {list[k] : k \in DOMAIN list}

Min(S) == CHOOSE x \in S : \A y \in S : x <= y
Max(S) == CHOOSE x \in S : \A y \in S : y <= x

\* The comma-separated tokens of a string, by the places of its commas.
Cuts(s) == {0, Len(s) + 1} \cup {k \in 1..Len(s) : s[k] = ","}
NthCut(s, n) == CHOOSE c \in Cuts(s) : Cardinality({d \in Cuts(s) : d < c}) = n - 1
Tokens(s) ==
    [n \in 1..(Cardinality(Cuts(s)) - 1) |->
        SubSeq(s, NthCut(s, n) + 1, NthCut(s, n + 1) - 1)]

\* The tags of a flag cell: an empty cell holds none.
TagSet(cell) == IF cell = EmptyStr THEN {} ELSE Range(Tokens(cell))

\* The tags an entry lists: the sentinel lists none.
Listed(entry) == IF entry = Sentinel THEN {} ELSE Range(Tokens(entry.items[1]))

AgentFlags(row) == At(row, 2)
QaFlags(row) == At(row, 3)
HasBothFlags(row) == AgentFlags(row) # Undefined /\ QaFlags(row) # Undefined

\* The data rows of the stored bundle, numbered as its entries are.
Stored == results # Null
Entries == 1..(Len(results.data) - 1)
RowOf(k) == results.data[k + 1]

\* The callbacks of the log, and the step that adds one.
Callbacks == {k \in DOMAIN log : log[k].ev # "upload"}
CompleteStep(f) == log' = Append(log, [ev |-> "complete", file |-> f, message |-> ""])
FailedStep(f, m) == log' = Append(log, [ev |-> "error", file |-> f, message |-> m])
FileIds == 1..Len(files)

---------------------------------------------------------------------------
(* C1 *)

\* C1: a stored bundle holds one overtags entry and one undertags entry per
\* retained data row (the filtered grid without its header), and the k-th
\* entry of each list is the one of the k-th data row.
C1_OneEntryPerDataRow ==
    Stored =>
        /\ Len(results.overtags) = Len(results.data) - 1
        /\ Len(results.undertags) = Len(results.data) - 1
        /\ \A k \in Entries :
              /\ Ok(results.overtags[k]) = RowEntry(QaFlags(RowOf(k)), AgentFlags(RowOf(k)))
              /\ Ok(results.undertags[k]) = RowEntry(AgentFlags(RowOf(k)), QaFlags(RowOf(k)))

\* Two data rows are retained and their entries differ, so that the order shows.
C1_Witness ==
    /\ Stored
    /\ Len(results.data) = 3
    /\ results.overtags[1] # results.overtags[2]
    /\ results.undertags[1] # results.undertags[2]

---------------------------------------------------------------------------
(* C2 *)

\* C2, as claimed: for every retained data row holding both flag cells, the
\* overtags entry lists exactly the tags of the QA flags that are not among
\* the Agent flags and the undertags entry exactly the tags of the Agent
\* flags that are not among the QA flags, the sentinel standing for none; a
\* row with empty agent flags and a single QA tag has that tag as its
\* overtags entry and the sentinel as its undertags entry.
C2_OverIsQaMinusAgent ==
    Stored =>
        \A k \in Entries :
            HasBothFlags(RowOf(k)) =>
                LET agent == AgentFlags(RowOf(k))
                    qa == QaFlags(RowOf(k))
                    over == results.overtags[k]
                    under == results.undertags[k]
                IN  /\ Listed(over) = TagSet(qa) \ TagSet(agent)
                    /\ (over = Sentinel) <=> (TagSet(qa) \ TagSet(agent) = {})
                    /\ Listed(under) = TagSet(agent) \ TagSet(qa)
                    /\ (under = Sentinel) <=> (TagSet(agent) \ TagSet(qa) = {})
                    /\ (agent = EmptyStr /\ Cardinality(Cuts(qa)) = 2)
                          => (over = Single(qa) /\ under = Sentinel)

\* C2, amended: the two directions are the other way round. For every
\* retained data row holding both flag cells, the overtags entry lists
\* exactly the tags of the Agent flags that are not among the QA flags and
\* the undertags entry exactly the tags of the QA flags that are not among
\* the Agent flags, the sentinel standing for none; a row with empty agent
\* flags and a single QA tag has the sentinel as its overtags entry and that
\* tag as its undertags entry.
C2_OverIsAgentMinusQa ==
    Stored =>
        \A k \in Entries :
            HasBothFlags(RowOf(k)) =>
                LET agent == AgentFlags(RowOf(k))
                    qa == QaFlags(RowOf(k))
                    over == results.overtags[k]
                    under == results.undertags[k]
                IN  /\ Listed(over) = TagSet(agent) \ TagSet(qa)
                    /\ (over = Sentinel) <=> (TagSet(agent) \ TagSet(qa) = {})
                    /\ Listed(under) = TagSet(qa) \ TagSet(agent)
                    /\ (under = Sentinel) <=> (TagSet(qa) \ TagSet(agent) = {})
                    /\ (agent = EmptyStr /\ Cardinality(Cuts(qa)) = 2)
                          => (over = Sentinel /\ under = Single(qa))

\* A bundle with a row that has empty agent flags and the single QA tag "a",
\* and a row for which neither entry is the sentinel.
C2_Witness ==
    /\ Stored
    /\ \E k \in Entries :
          /\ AgentFlags(RowOf(k)) = EmptyStr
          /\ QaFlags(RowOf(k)) = << "a" >>
          /\ results.overtags[k] = Sentinel
          /\ results.undertags[k] = Single(<< "a" >>)
    /\ \E k \in Entries :
          /\ HasBothFlags(RowOf(k))
          /\ results.overtags[k] # Sentinel
          /\ results.undertags[k] # Sentinel

---------------------------------------------------------------------------
(* C3, C4: getMismatchedTags called on any grid. *)

Modes == {"over", "under"}
RetOf(mode) == IF mode = "over" THEN call.over ELSE call.under
SourceOf(row, mode) == IF mode = "over" THEN QaFlags(row) ELSE AgentFlags(row)
DestOf(row, mode) == IF mode = "over" THEN AgentFlags(row) ELSE QaFlags(row)
DataRows == 1..(Len(call.content) - 1)

\* The tokens of dest that are no token of source, as positions of dest.
AbsentAt(source, dest) ==
    {n \in DOMAIN Tokens(dest) : Tokens(dest)[n] \notin Range(Tokens(source))}

\* list is what is left of the tokens of dest at the positions of keep, in order.
IsSubsequenceAt(list, dest, keep) ==
    /\ Len(list) = Cardinality(keep)
    /\ \A n \in keep :
          list[Cardinality({m \in keep : m <= n})] = Tokens(dest)[n]

\* The entry the three branches prescribe for a row.
EntryAsSpecified(entry, source, dest) ==
    IF source = EmptyStr THEN entry = Single(dest)
    ELSE IF dest = EmptyStr THEN entry = Sentinel
    ELSE IF AbsentAt(source, dest) = {} THEN entry = Sentinel
    ELSE /\ entry # Sentinel
         /\ Len(entry.items) = 1
         /\ IsSubsequenceAt(Tokens(entry.items[1]), dest, AbsentAt(source, dest))

\* A row for which the third branch is reached without both of its cells.
SplitsUndefined(row, mode) ==
    /\ SourceOf(row, mode) # EmptyStr
    /\ DestOf(row, mode) # EmptyStr
    /\ (SourceOf(row, mode) = Undefined \/ DestOf(row, mode) = Undefined)

\* C3: in either mode, the call returns one entry per data row, which is
\* [dest] when source is the empty string (also when dest is empty), else the
\* sentinel when dest is the empty string, else the sentinel when every token
\* of dest is a token of source, and else the singleton of the tokens of dest
\* absent from source, in dest's order, duplicates kept, joined by ','. The
\* call throws only for a row that reaches the split without both cells.
C3_EntryFollowsBranches ==
    \A mode \in Modes :
        (call # Null /\ RetOf(mode) # NotCalled) =>
            LET ret == RetOf(mode).ret
            IN  IF ret.threw
                THEN \E k \in DataRows : SplitsUndefined(call.content[k + 1], mode)
                ELSE /\ Len(ret.value) = Len(call.content) - 1
                     /\ \A k \in DataRows :
                           EntryAsSpecified(ret.value[k],
                                            SourceOf(call.content[k + 1], mode),
                                            DestOf(call.content[k + 1], mode))

\* A row with both cells empty, whose entry is [""] in both modes, beside a
\* row with both cells non-empty and a tag of its own in each.
C3_Witness ==
    /\ call # Null
    /\ call.over # NotCalled /\ call.under # NotCalled
    /\ ~call.over.ret.threw /\ ~call.under.ret.threw
    /\ \E k \in DataRows :
          /\ AgentFlags(call.content[k + 1]) = EmptyStr
          /\ QaFlags(call.content[k + 1]) = EmptyStr
          /\ call.over.ret.value[k] = Single(EmptyStr)
          /\ call.under.ret.value[k] = Single(EmptyStr)
    /\ \E k \in DataRows :
          /\ Truthy(AgentFlags(call.content[k + 1]))
          /\ Truthy(QaFlags(call.content[k + 1]))
          /\ call.over.ret.value[k] # Sentinel
          /\ call.under.ret.value[k] # Sentinel

\* C4: the over entry and the under entry of a row are both the sentinel
\* only if both flag cells are non-empty and hold the same set of tokens.
C4_BothSentinelOnlyIfSetEqual ==
    (call # Null /\ call.over # NotCalled /\ call.under # NotCalled
       /\ ~call.over.ret.threw /\ ~call.under.ret.threw) =>
        \A k \in DataRows :
            (call.over.ret.value[k] = Sentinel /\ call.under.ret.value[k] = Sentinel) =>
                LET agent == AgentFlags(call.content[k + 1])
                    qa == QaFlags(call.content[k + 1])
                IN  /\ agent # EmptyStr /\ agent # Undefined
                    /\ qa # EmptyStr /\ qa # Undefined
                    /\ Range(Tokens(agent)) = Range(Tokens(qa))

\* Both entries are the sentinel for two cells that differ as strings.
C4_Witness ==
    /\ call # Null
    /\ call.over # NotCalled /\ call.under # NotCalled
    /\ ~call.over.ret.threw /\ ~call.under.ret.threw
    /\ \E k \in DataRows :
          /\ call.over.ret.value[k] = Sentinel
          /\ call.under.ret.value[k] = Sentinel
          /\ AgentFlags(call.content[k + 1]) # QaFlags(call.content[k + 1])

---------------------------------------------------------------------------
(* C5 *)

\* The places of "::" in a token, and the token's parts around them.
DelimAt(t) == {k \in 1..(Len(t) - 1) : t[k] = ":" /\ t[k + 1] = ":"}
HasDelim(t) == DelimAt(t) # {}
AfterFirst(t) == SubSeq(t, Min(DelimAt(t)) + 2, Len(t))
LaterDelims(t) == {k \in DelimAt(t) : k >= Min(DelimAt(t)) + 2}
UpToNext(t) ==
    IF LaterDelims(t) = {} THEN AfterFirst(t)
    ELSE SubSeq(t, Min(DelimAt(t)) + 2, Min(LaterDelims(t)) - 1)

\* A string without the white space around it.
Inked(s) == {k \in 1..Len(s) : s[k] # " "}
Stripped(s) == IF Inked(s) = {} THEN EmptyStr ELSE SubSeq(s, Min(Inked(s)), Max(Inked(s)))

\* The tokens holding "::" in the flag cells of the data rows of a grid.
FlagCells(grid) ==
    {cell \in UNION {{AgentFlags(grid[k]), QaFlags(grid[k])} : k \in 2..Len(grid)} :
        cell # Undefined /\ cell # EmptyStr}
DelimTokens(grid) == {t \in UNION {Range(Tokens(cell)) : cell \in FlagCells(grid)} : HasDelim(t)}

Ascending(list) == \A k \in 1..(Len(list) - 1) : StrLess(list[k], list[k + 1])

\* C5, as claimed: l1Tags is the ascending, duplicate-free list of the
\* trimmed substrings after the first "::" of the tokens holding "::" in the
\* flag cells of the data rows.
C5_WholeRestAfterFirstDelim ==
    Stored =>
        /\ Ascending(results.l1Tags)
        /\ Range(results.l1Tags) = {Stripped(AfterFirst(t)) : t \in DelimTokens(results.data)}

\* C5, amended: l1Tags is the ascending, duplicate-free list of the trimmed
\* substrings between the first "::" and the next "::" (the end of the token
\* when there is no other) of the tokens holding "::" in the flag cells of
\* the data rows; tokens without "::" contribute nothing.
C5_SegmentAfterFirstDelim ==
    Stored =>
        /\ Ascending(results.l1Tags)
        /\ Range(results.l1Tags) = {Stripped(UpToNext(t)) : t \in DelimTokens(results.data)}

\* A bundle from a grid with a token of two "::", whose tag is not the whole
\* rest of the token, beside a token without "::".
C5_Witness ==
    /\ Stored
    /\ \E t \in DelimTokens(results.data) :
          /\ Stripped(UpToNext(t)) # Stripped(AfterFirst(t))
          /\ Stripped(UpToNext(t)) \in Range(results.l1Tags)
    /\ \E cell \in FlagCells(results.data) : \E t \in Range(Tokens(cell)) : ~HasDelim(t)

---------------------------------------------------------------------------
(* C6 *)

\* A row whose QA-flags cell is there and is not empty.
HasQaFlags(row) == QaFlags(row) # Undefined /\ QaFlags(row) # EmptyStr

\* C6, as claimed: a run that stores a bundle stores as its data exactly the
\* rows of the grid, in their order, whose QA-flags cell is non-empty, so
\* that every row of it has a non-empty cell 3; the header row is kept; and
\* the rows left out give no entry to overtags or undertags and no tag to
\* l1Tags.
C6_KeepsRowsWithQaFlags ==
    [][\A f \in FileIds :
          (CompleteStep(f) /\ error' = Null) =>
              LET kept == SelectSeq(files[f], HasQaFlags)
              IN  /\ results'.data = kept
                  /\ \A row \in Range(results'.data) : HasQaFlags(row)
                  /\ results'.data[1] = files[f][1]
                  /\ Len(results'.overtags) = Len(kept) - 1
                  /\ Len(results'.undertags) = Len(kept) - 1
                  /\ Range(results'.l1Tags) = {Stripped(UpToNext(t)) : t \in DelimTokens(kept)}]_vars

---------------------------------------------------------------------------
(* C7 *)

\* A bundle with its four fields, each computed from the grid.
FullBundleOf(bundle, grid) ==
    /\ bundle # Null
    /\ DOMAIN bundle = {"data", "overtags", "undertags", "l1Tags"}
    /\ bundle.data = FilterRows(grid)
    /\ Ok(bundle.overtags) = getMismatchedTags(bundle.data, "over")
    /\ Ok(bundle.undertags) = getMismatchedTags(bundle.data, "under")
    /\ bundle.l1Tags = getL1Tags(bundle.data)

\* C7: whatever the grid, a complete callback lets no exception out and
\* either stores a bundle whose four fields are computed from that grid, with
\* error null, or stores an error string and leaves results as they were.
C7_BundleOrErrorString ==
    [][\A f \in FileIds :
          CompleteStep(f) =>
              /\ ~uncaught'
              /\ \/ error' = Null /\ FullBundleOf(results', files[f])
                 \/ /\ error' # Null
                    /\ error'.text \in {SchemaError.text, ProcessingError("").text}
                    /\ results' = results]_vars

\* A run on a grid with a row of fewer than 5 cells has ended with the
\* processing error and no bundle.
C7_Witness ==
    /\ Len(log) = 2
    /\ log[2].ev = "complete"
    /\ \E k \in 2..Len(files[1]) : Len(files[1][k]) < 5
    /\ error = ProcessingError(NoSplit)
    /\ results = Null
    /\ ~uncaught

---------------------------------------------------------------------------
(* C8 *)

\* C8: a complete callback stores a bundle only for a grid whose first row
\* is the five expected cells in order; for any other first row it sets the
\* schema error and leaves results alone.
C8_BundleOnlyForExpectedHeader ==
    [][\A f \in FileIds :
          CompleteStep(f) =>
              /\ (error' = Null \/ results' # results)
                    => (Len(files[f]) > 0 /\ files[f][1] = ExpectedHeader)
              /\ (Len(files[f]) > 0 /\ files[f][1] # ExpectedHeader)
                    => (error' = SchemaError /\ results' = results)]_vars

\* A run on a grid whose first row has a sixth column has ended with the
\* schema error and no bundle.
C8_Witness ==
    /\ Len(log) = 2
    /\ log[2].ev = "complete"
    /\ Len(files[1]) > 0
    /\ Len(files[1][1]) = 6
    /\ SubSeq(files[1][1], 1, 5) = ExpectedHeader
    /\ error = SchemaError
    /\ results = Null

---------------------------------------------------------------------------
(* C9 *)

AllDone == picked = Len(files) /\ inflight = {}

\* The snapshot is what the callback of file f leaves: running it again on
\* the snapshot changes nothing.
SnapshotIsOf(f) ==
    LET e == log[CHOOSE k \in Callbacks : log[k].file = f]
    IN  IF e.ev = "complete"
        THEN /\ results = OnComplete(files[f], results, error).results
             /\ error = OnComplete(files[f], results, error).error
        ELSE error = ParseError(e.message)

\* C9, as claimed: when the second of two files is supplied before the
\* parse of the first has completed, then once both callbacks have fired the
\* snapshot is the one of the second file, whichever fired first.
C9_LastCallWins ==
    (Len(files) = 2 /\ AllDone /\ log[1].ev = "upload" /\ log[2].ev = "upload")
        => SnapshotIsOf(2)

---------------------------------------------------------------------------
(* C10 *)

\* A run on this grid succeeds: the header is accepted and no retained row
\* reaches a split without both of its flag cells.
Succeeds(grid) ==
    /\ Len(grid) > 0
    /\ grid[1] = ExpectedHeader
    /\ \A k \in 2..Len(grid) :
          QaFlags(grid[k]) # EmptyStr =>
              \A mode \in Modes : ~SplitsUndefined(grid[k], mode)

EventFailed(e) == e.ev = "error" \/ ~Succeeds(files[e.file])

\* C10: a failed run (header mismatch, parse error or processing exception)
\* changes only error, which it sets to a string, and a successful run stores
\* its bundle and sets error to null; so error is non-null exactly when the
\* most recent callback was of a failed run, results is non-null exactly when
\* some run has succeeded, and a failure after a success leaves the earlier
\* results beside the error.
C10_FailureKeepsResults ==
    /\ [](/\ (error # Null) <=> (Callbacks # {} /\ EventFailed(log[Max(Callbacks)]))
          /\ (results # Null) <=> (\E k \in Callbacks : ~EventFailed(log[k])))
    /\ [][\A f \in FileIds :
             /\ CompleteStep(f) =>
                   IF Succeeds(files[f])
                   THEN /\ results' # Null
                        /\ results'.data = SelectSeq(files[f], KeepRow)
                        /\ error' = Null
                   ELSE results' = results /\ error' # Null
             /\ \A m \in ParseMessages :
                   FailedStep(f, m) => (results' = results /\ error' = ParseError(m))]_vars

\* The results of an earlier run are held beside the error of a later one,
\* which threw while processing.
C10_Witness ==
    /\ results # Null
    /\ error = ProcessingError(NoSplit)
    /\ Len(log) = 4
    /\ results.data # FilterRows(files[log[4].file])

=============================================================================
